---- MODULE Spec2Model ----
(***************************************************************************)
(* A model of cloud_architecture_viz.py: the module imports, the static    *)
(* diagram builder (create_matplotlib_visualization), the interactive      *)
(* graph builder (create_interactive_visualization) and the orchestration  *)
(* (main), run as a script one or more times over a persistent file        *)
(* system.                                                                 *)
(*                                                                         *)
(* Coordinates of the static diagram are decimals with one fractional      *)
(* digit in the source; the model keeps them exactly, in tenths            *)
(* (5.5 is 55).  Coordinates of the interactive graph are integers in the  *)
(* source and are kept as written.                                         *)
(***************************************************************************)
EXTENDS Integers, Sequences, FiniteSets, TLC

\* ------------------------------------------------------------------ bounds
\* How many times the script is run in succession.
MaxRuns == 2
\* datetime.now() formatted to the second: the clock takes values 0..MaxClock.
MaxClock == 1
\* How many distinct identifiers uuid4 can hand to a plot div.
NumDivIds == 2
\* Size of the other tables the builders are run on: prefixes of the literal
\* tables of about this length, with at most one edge endpoint altered.
MaxTable == 2

\* ---------------------------------------------------------- small helpers
Range(s) == {s[i] : i \in 1..Len(s)}

Prefix(s, n) == SubSeq(s, 1, IF n < Len(s) THEN n ELSE Len(s))

\* Index of the first occurrence of x in sequence s (x is in s).
IndexOf(s, x) == CHOOSE i \in 1..Len(s) : s[i] = x /\ \A j \in 1..(i-1) : s[j] # x

RECURSIVE Flatten(_)
Flatten(ss) == IF ss = <<>> THEN <<>> ELSE Head(ss) \o Flatten(Tail(ss))

\* Python's None inside the coordinate lists of the edge trace.
None == -1

\* --------------------------------------------- the static diagram's tables
\* colors: category -> display colour.
colors_static ==
    [user |-> "#4CAF50", web |-> "#2196F3", app |-> "#FF9800", db |-> "#9C27B0",
     cache |-> "#F44336", storage |-> "#795548", network |-> "#607D8B"]

Comp(x, y, w, h, label, key) ==
    [x |-> x, y |-> y, w |-> w, h |-> h, label |-> label, color_key |-> key]

\* components: (x, y, width, height, label, color_key), in tenths.
ComponentsTable ==
    << Comp(10,  2, 12, 6, "Users", "user"),
       Comp(10, 55, 15, 8, "Load Balancer", "network"),
       Comp(35, 60, 15, 6, "Web Server 1", "web"),
       Comp(35, 50, 15, 6, "Web Server 2", "web"),
       Comp(60, 55, 15, 8, "App Server", "app"),
       Comp(80, 60, 12, 6, "Database", "db"),
       Comp(80, 45, 12, 6, "Redis Cache", "cache"),
       Comp(60, 30, 15, 8, "File Storage", "storage"),
       Comp(35, 20, 15, 6, "API Gateway", "network"),
       Comp(10, 25, 15, 6, "CDN", "network") >>

Conn(sx, sy, ex, ey) == [start_x |-> sx, start_y |-> sy, end_x |-> ex, end_y |-> ey]

\* The same table with the first arrow's start typed one unit too low
\* (0.8 -> 0.1): the arrow no longer leaves the Users rectangle.
ConnectionsTable_misplaced ==
    << Conn(16,  1, 17, 55), Conn(25, 59, 35, 62), Conn(25, 57, 35, 52),
       Conn(50, 62, 60, 59), Conn(50, 52, 60, 57), Conn(75, 59, 80, 62),
       Conn(75, 57, 80, 49), Conn(67, 55, 67, 38), Conn(16,  8, 35, 22),
       Conn(16,  8, 17, 25), Conn(25, 28, 35, 24), Conn(50, 22, 60, 32) >>

\* connections: (start_x, start_y, end_x, end_y), in tenths.
ConnectionsTable ==
    << Conn(16,  8, 17, 55),    \* Users to Load Balancer
       Conn(25, 59, 35, 62),    \* Load Balancer to Web Server 1
       Conn(25, 57, 35, 52),    \* Load Balancer to Web Server 2
       Conn(50, 62, 60, 59),    \* Web Server 1 to App Server
       Conn(50, 52, 60, 57),    \* Web Server 2 to App Server
       Conn(75, 59, 80, 62),    \* App Server to Database
       Conn(75, 57, 80, 49),    \* App Server to Redis
       Conn(67, 55, 67, 38),    \* App Server to File Storage
       Conn(16,  8, 35, 22),    \* Users to API Gateway
       Conn(16,  8, 17, 25),    \* Users to CDN
       Conn(25, 28, 35, 24),    \* CDN to API Gateway
       Conn(50, 22, 60, 32) >>  \* API Gateway to File Storage

\* ------------------------------------------ the interactive graph's tables
Node(id, x, y, color, size) ==
    [id |-> id, pos |-> <<x, y>>, color |-> color, size |-> size]

\* nodes: identifier -> {pos, color, size}, in the dict's insertion order.
NodesTable ==
    << Node("users", 1, 1, "#4CAF50", 30),
       Node("cdn", 1, 3, "#607D8B", 25),
       Node("load_balancer", 2, 5, "#607D8B", 25),
       Node("web_server_1", 4, 6, "#2196F3", 25),
       Node("web_server_2", 4, 4, "#2196F3", 25),
       Node("api_gateway", 4, 2, "#607D8B", 25),
       Node("app_server", 6, 5, "#FF9800", 30),
       Node("database", 8, 6, "#9C27B0", 30),
       Node("cache", 8, 4, "#F44336", 25),
       Node("storage", 6, 2, "#795548", 25) >>

\* The edge list with one identifier misspelt ('api_gatway').
EdgesTable_typo ==
    << <<"users", "cdn">>, <<"users", "load_balancer">>, <<"users", "api_gateway">>,
       <<"cdn", "load_balancer">>, <<"load_balancer", "web_server_1">>,
       <<"load_balancer", "web_server_2">>, <<"web_server_1", "app_server">>,
       <<"web_server_2", "app_server">>, <<"app_server", "database">>,
       <<"app_server", "cache">>, <<"app_server", "storage">>,
       <<"api_gatway", "storage">>, <<"api_gateway", "app_server">> >>

\* edges: (source, target).
EdgesTable ==
    << <<"users", "cdn">>,
       <<"users", "load_balancer">>,
       <<"users", "api_gateway">>,
       <<"cdn", "load_balancer">>,
       <<"load_balancer", "web_server_1">>,
       <<"load_balancer", "web_server_2">>,
       <<"web_server_1", "app_server">>,
       <<"web_server_2", "app_server">>,
       <<"app_server", "database">>,
       <<"app_server", "cache">>,
       <<"app_server", "storage">>,
       <<"api_gateway", "storage">>,
       <<"api_gateway", "app_server">> >>

\* dict views of a node table: its keys, and the value stored under a key.
Keys(tbl) == {tbl[i].id : i \in 1..Len(tbl)}

Lookup(tbl, k) == tbl[CHOOSE i \in 1..Len(tbl) : tbl[i].id = k]

\* ------------------------------------------------------------------ state
VARIABLES
    installed,      \* matplotlib, networkx and plotly can all be imported
    docs,           \* <cwd>/docs: "absent" or "dir"
    pngFile,        \* <tmp>/cloud_architecture_static.png holds an image
    htmlFile,       \* contents of docs/index.html, <<>> while there is none
    clock,          \* the wall clock, in seconds
    written,        \* every document written to docs/index.html, in order
    run,            \* which invocation of the script this is
    components,     \* create_matplotlib_visualization's components
    connections,    \* create_matplotlib_visualization's connections
    nodes,          \* create_interactive_visualization's nodes
    edges,          \* create_interactive_visualization's edges
    pc,             \* position of the running script
    idx,            \* index of the running for loop
    out,            \* the lines printed by this run
    exc,            \* the exception raised in this run, "none" if none
    failedAt,       \* the step that raised it
    outcome,        \* how this run ended
    effects,        \* what this run did to the world outside the process
    ax,             \* the static figure's axes: patches, texts, arrows, legend
    G,              \* the DiGraph: nodes, their attributes, adjacency
    attrs,          \* pos, colors and sizes extracted from G
    edge_xy,        \* edge_x and edge_y
    fig_interactive,\* the figure create_interactive_visualization returns
    html_content    \* the document composed by main

envVars   == <<installed, docs, pngFile, htmlFile, clock, written, run>>
tableVars == <<components, connections, nodes, edges>>
ctlVars   == <<pc, idx, out, exc, failedAt, outcome, effects>>
figVars   == <<ax, G, attrs, edge_xy, fig_interactive, html_content>>
vars      == <<envVars, tableVars, ctlVars, figVars>>

NoAxes   == [patches |-> <<>>, texts |-> <<>>, arrows |-> <<>>, legend |-> <<>>]
NoGraph  == [nodes |-> <<>>, data |-> <<>>, adj |-> <<>>]
NoAttrs  == [pos |-> <<>>, colors |-> <<>>, sizes |-> <<>>]
NoEdgeXY == [edge_x |-> <<>>, edge_y |-> <<>>]
NoFigure == <<>>

\* A fresh process: nothing printed, nothing built.
FreshProcess ==
    /\ pc = "load" /\ idx = 0 /\ out = <<>> /\ exc = "none" /\ failedAt = "none"
    /\ outcome = "running" /\ effects = {}
    /\ ax = NoAxes /\ G = NoGraph /\ attrs = NoAttrs /\ edge_xy = NoEdgeXY
    /\ fig_interactive = NoFigure /\ html_content = <<>>

InitEnv ==
    /\ installed \in BOOLEAN
    /\ docs \in {"absent", "dir"}
    /\ pngFile = FALSE /\ htmlFile = <<>> /\ clock = 0 /\ written = <<>> /\ run = 1

\* The script as written: the four tables are the literals of the source.
Init ==
    /\ InitEnv
    /\ components = ComponentsTable /\ connections = ConnectionsTable
    /\ nodes = NodesTable /\ edges = EdgesTable
    /\ FreshProcess

\* -------------------------------------------------------- exception handling
\* main's two except clauses: what is printed and how the run ends.  Every
\* exception type of the model derives from Exception.
IsImportError(e) == e \in {"ImportError", "ModuleNotFoundError"}

Except(e) ==
    IF IsImportError(e)
    THEN [lines |-> <<"missing_required_library", "please_install_required_packages",
                      "pip install matplotlib networkx plotly">>,
          outcome |-> "MissingDependency"]
    ELSE [lines |-> <<"error_creating_visualization">>, outcome |-> "Unexpected"]

\* Exception e is raised inside main's try block at step `at`.
Raise(e, at) ==
    /\ exc' = e /\ failedAt' = at
    /\ out' = out \o Except(e).lines
    /\ outcome' = Except(e).outcome
    /\ pc' = "exit"

\* ---------------------------------------------------------- module imports
\* The import statements at the top of the module run before main is defined
\* and outside any try block.
ModuleImports ==
    /\ pc = "load"
    /\ IF installed
       THEN pc' = "entry" /\ UNCHANGED <<exc, failedAt, outcome>>
       ELSE /\ exc' = "ModuleNotFoundError" /\ failedAt' = "load"
            /\ outcome' = "UnhandledException" /\ pc' = "exit"
    /\ UNCHANGED <<envVars, tableVars, figVars, idx, out, effects>>

\* main up to the call of create_matplotlib_visualization.
MainStart ==
    /\ pc = "entry"
    /\ out' = out \o <<"creating", "generating_static">>
    /\ pc' = "static_begin"
    /\ UNCHANGED <<envVars, tableVars, figVars, idx, exc, failedAt, outcome, effects>>

\* ------------------------------------------ create_matplotlib_visualization
Rect(x, y, w, h, edge, face) ==
    [x |-> x, y |-> y, w |-> w, h |-> h, edgecolor |-> edge, facecolor |-> face]

Text(x2, y2, s) == [x2 |-> x2, y2 |-> y2, text |-> s]

\* plt.subplots creates the first figure, which loads the configured backend.
SubplotsResults == {"ok", "ImportError"}

\* The figure, the axes, the cloud boundary and its caption.  Text positions
\* are kept doubled so that x + w/2 stays an integer.
StaticBegin ==
    /\ pc = "static_begin"
    /\ \E r \in SubplotsResults :
         IF r = "ok"
         THEN /\ ax' = [NoAxes EXCEPT
                         !.patches = <<Rect(5, 10, 90, 60, "lightblue", "lightcyan")>>,
                         !.texts = <<Text(100, 150, "Cloud Infrastructure")>>]
              /\ idx' = 1 /\ pc' = "components"
              /\ UNCHANGED <<out, exc, failedAt, outcome>>
         ELSE Raise(r, "subplots") /\ UNCHANGED <<ax, idx>>
    /\ UNCHANGED <<envVars, tableVars, effects, G, attrs, edge_xy, fig_interactive,
                   html_content>>

\* One iteration of `for x, y, w, h, label, color_key in components`.
\* patches.Rectangle((x, y), w, h, edgecolor='black', facecolor=colors[color_key])
ComponentPatch(c) == Rect(c.x, c.y, c.w, c.h, "black", colors_static[c.color_key])

\* A label anchored at the rectangle's corner instead of its centre.
ComponentText_corner(c) == Text(2 * c.x, 2 * c.y, c.label)

\* ax.text(x + w/2, y + h/2, label, ha='center', va='center')
ComponentText(c) == Text(2 * c.x + c.w, 2 * c.y + c.h, c.label)

DrawComponent ==
    /\ pc = "components" /\ idx <= Len(components)
    /\ ax' = [ax EXCEPT !.patches = Append(@, ComponentPatch(components[idx])),
                        !.texts = Append(@, ComponentText(components[idx]))]
    /\ idx' = idx + 1
    /\ UNCHANGED <<envVars, tableVars, pc, out, exc, failedAt, outcome, effects,
                   G, attrs, edge_xy, fig_interactive, html_content>>

ComponentsDone ==
    /\ pc = "components" /\ idx > Len(components)
    /\ idx' = 1 /\ pc' = "connections"
    /\ UNCHANGED <<envVars, tableVars, out, exc, failedAt, outcome, effects, figVars>>

\* An arrow that is computed from the geometry of the i-th component
\* instead of being read from the i-th connection.
Arrow_fromGeometry(i) ==
    [xytext |-> IF i <= Len(components)
                THEN <<components[i].x + components[i].w, components[i].y>>
                ELSE <<0, 0>>,
     xy |-> <<connections[i].end_x, connections[i].end_y>>]

\* One iteration of `for start_x, start_y, end_x, end_y in connections`:
\* ax.annotate('', xy=(end_x, end_y), xytext=(start_x, start_y), ...).
Arrow(i) ==
    [xytext |-> <<connections[i].start_x, connections[i].start_y>>,
     xy |-> <<connections[i].end_x, connections[i].end_y>>]

DrawConnection ==
    /\ pc = "connections" /\ idx <= Len(connections)
    /\ ax' = [ax EXCEPT !.arrows = Append(@, Arrow(idx))]
    /\ idx' = idx + 1
    /\ UNCHANGED <<envVars, tableVars, pc, out, exc, failedAt, outcome, effects,
                   G, attrs, edge_xy, fig_interactive, html_content>>

\* Title, axis label, legend (one Patch per colour key), tight_layout, return.
LegendKeys == <<"user", "web", "app", "db", "cache", "storage", "network">>

StaticFinish ==
    /\ pc = "connections" /\ idx > Len(connections)
    /\ ax' = [ax EXCEPT !.legend = [i \in 1..Len(LegendKeys) |->
                                      colors_static[LegendKeys[i]]]]
    /\ idx' = 0 /\ pc' = "savefig"
    /\ UNCHANGED <<envVars, tableVars, out, exc, failedAt, outcome, effects,
                   G, attrs, edge_xy, fig_interactive, html_content>>

\* ----------------------------------------------------- main: raster export
\* fig_static.savefig(static_file, dpi=300, bbox_inches='tight') writes under
\* the temporary directory, or raises when it cannot.
SavefigResults == {"ok", "OSError"}

\* savefig's failure swallowed: the run carries on as if the file were saved.
SaveStatic_swallow ==
    /\ pc = "savefig"
    /\ \E r \in SavefigResults :
         /\ pngFile' = (pngFile \/ r = "ok")
         /\ effects' = IF r = "ok" THEN effects \cup {"png_written"} ELSE effects
         /\ out' = Append(out, "static_saved")
         /\ exc' = (IF r = "ok" THEN exc ELSE r)
         /\ failedAt' = (IF r = "ok" THEN failedAt ELSE "savefig")
         /\ pc' = "interactive_begin"
         /\ UNCHANGED outcome
    /\ UNCHANGED <<installed, docs, htmlFile, clock, written, run, tableVars, idx,
                   figVars>>

SaveStatic ==
    /\ pc = "savefig"
    /\ \E r \in SavefigResults :
         IF r = "ok"
         THEN /\ pngFile' = TRUE
              /\ effects' = effects \cup {"png_written"}
              /\ out' = Append(out, "static_saved")
              /\ pc' = "interactive_begin"
              /\ UNCHANGED <<exc, failedAt, outcome>>
         ELSE Raise(r, "savefig") /\ UNCHANGED <<pngFile, effects>>
    /\ UNCHANGED <<installed, docs, htmlFile, clock, written, run, tableVars, idx,
                   figVars>>

\* ----------------------------------------- create_interactive_visualization
\* The DiGraph keeps its nodes in insertion order; data[i] is <<>> for a node
\* with an empty attribute dict and <<a>> for one with attributes a; adj[i]
\* lists the successors of nodes[i] in insertion order.
HasNode(g, n) == n \in Range(g.nodes)

\* G.add_node(n, **a)
AddNode(g, n, a) ==
    IF HasNode(g, n)
    THEN [g EXCEPT !.data[IndexOf(g.nodes, n)] = <<a>>]
    ELSE [nodes |-> Append(g.nodes, n), data |-> Append(g.data, <<a>>),
          adj |-> Append(g.adj, <<>>)]

\* What add_edges_from does with an endpoint it has not seen: a bare node.
EnsureNode(g, n) ==
    IF HasNode(g, n) THEN g
    ELSE [nodes |-> Append(g.nodes, n), data |-> Append(g.data, <<>>),
          adj |-> Append(g.adj, <<>>)]

\* An add_edge that forgets the edge when the source already has a successor.
AddEdge_keepsFirst(g, u, v) ==
    LET g2 == EnsureNode(EnsureNode(g, u), v)
        i  == IndexOf(g2.nodes, u)
    IN  [g2 EXCEPT !.adj[i] = IF @ # <<>> THEN @ ELSE Append(@, v)]

AddEdge(g, u, v) ==
    LET g2 == EnsureNode(EnsureNode(g, u), v)
        i  == IndexOf(g2.nodes, u)
    IN  [g2 EXCEPT !.adj[i] = IF v \in Range(@) THEN @ ELSE Append(@, v)]

\* G.nodes() and G.edges(), in iteration order.
GNodes(g) == g.nodes

GEdges(g) ==
    Flatten([i \in 1..Len(g.nodes) |->
               [j \in 1..Len(g.adj[i]) |-> <<g.nodes[i], g.adj[i][j]>>]])

\* nx.get_node_attributes(G, 'pos'): aligned with G.nodes(), <<>> where the
\* node carries no 'pos'.
GetNodeAttributesPos(g) ==
    [i \in 1..Len(g.nodes) |-> IF g.data[i] = <<>> THEN <<>> ELSE <<g.data[i][1].pos>>]

\* pos[n] exists / its value.
PosHas(g, p, n) == HasNode(g, n) /\ p[IndexOf(g.nodes, n)] # <<>>

PosOf(g, p, n) == p[IndexOf(g.nodes, n)][1]

\* main prints, then the builder starts with an empty DiGraph.
InteractiveBegin ==
    /\ pc = "interactive_begin"
    /\ out' = Append(out, "generating_interactive")
    /\ G' = NoGraph /\ idx' = 1 /\ pc' = "add_nodes"
    /\ UNCHANGED <<envVars, tableVars, exc, failedAt, outcome, effects, ax, attrs,
                   edge_xy, fig_interactive, html_content>>

\* One iteration of `for node, attrs in nodes.items(): G.add_node(node, **attrs)`.
AddNodeStep ==
    /\ pc = "add_nodes" /\ idx <= Len(nodes)
    /\ G' = AddNode(G, nodes[idx].id,
                    [pos |-> nodes[idx].pos, color |-> nodes[idx].color,
                     size |-> nodes[idx].size])
    /\ idx' = idx + 1
    /\ UNCHANGED <<envVars, tableVars, pc, out, exc, failedAt, outcome, effects, ax,
                   attrs, edge_xy, fig_interactive, html_content>>

NodesDone ==
    /\ pc = "add_nodes" /\ idx > Len(nodes)
    /\ idx' = 1 /\ pc' = "add_edges"
    /\ UNCHANGED <<envVars, tableVars, out, exc, failedAt, outcome, effects, figVars>>

\* G.add_edges_from(edges), one iteration of its loop over the list.
AddEdgeStep ==
    /\ pc = "add_edges" /\ idx <= Len(edges)
    /\ G' = AddEdge(G, edges[idx][1], edges[idx][2])
    /\ idx' = idx + 1
    /\ UNCHANGED <<envVars, tableVars, pc, out, exc, failedAt, outcome, effects, ax,
                   attrs, edge_xy, fig_interactive, html_content>>

EdgesDone ==
    /\ pc = "add_edges" /\ idx > Len(edges)
    /\ idx' = 0 /\ pc' = "extract"
    /\ UNCHANGED <<envVars, tableVars, out, exc, failedAt, outcome, effects, figVars>>

\* pos, colors and sizes.  nodes[node] raises KeyError for a node of G that
\* is no key of nodes.
ExtractAttrs ==
    /\ pc = "extract"
    /\ IF \A i \in 1..Len(GNodes(G)) : GNodes(G)[i] \in Keys(nodes)
       THEN /\ attrs' = [pos |-> GetNodeAttributesPos(G),
                         colors |-> [i \in 1..Len(GNodes(G)) |->
                                       Lookup(nodes, GNodes(G)[i]).color],
                         sizes |-> [i \in 1..Len(GNodes(G)) |->
                                      Lookup(nodes, GNodes(G)[i]).size]]
            /\ idx' = 1 /\ pc' = "edge_trace"
            /\ UNCHANGED <<out, exc, failedAt, outcome>>
       ELSE Raise("KeyError", "extract") /\ UNCHANGED <<attrs, idx>>
    /\ UNCHANGED <<envVars, tableVars, effects, ax, G, edge_xy, fig_interactive,
                   html_content>>

\* One iteration of `for edge in G.edges()`: two lookups in pos, then
\* edge_x.extend([x0, x1, None]) and edge_y.extend([y0, y1, None]).
EdgeTraceStep ==
    /\ pc = "edge_trace" /\ idx <= Len(GEdges(G))
    /\ LET edge == GEdges(G)[idx] IN
         IF PosHas(G, attrs.pos, edge[1]) /\ PosHas(G, attrs.pos, edge[2])
         THEN LET p0 == PosOf(G, attrs.pos, edge[1])
                  p1 == PosOf(G, attrs.pos, edge[2])
              IN  /\ edge_xy' = [edge_x |-> edge_xy.edge_x \o <<p0[1], p1[1], None>>,
                                 edge_y |-> edge_xy.edge_y \o <<p0[2], p1[2], None>>]
                  /\ idx' = idx + 1
                  /\ UNCHANGED <<pc, out, exc, failedAt, outcome>>
         ELSE Raise("KeyError", "edge_trace") /\ UNCHANGED <<edge_xy, idx>>
    /\ UNCHANGED <<envVars, tableVars, effects, ax, G, attrs, fig_interactive,
                   html_content>>

\* node.replace('_', ' ').title() on the identifiers the tables use.
Title(node) ==
    CASE node = "users" -> "Users"
      [] node = "cdn" -> "Cdn"
      [] node = "load_balancer" -> "Load Balancer"
      [] node = "web_server_1" -> "Web Server 1"
      [] node = "web_server_2" -> "Web Server 2"
      [] node = "api_gateway" -> "Api Gateway"
      [] node = "app_server" -> "App Server"
      [] node = "database" -> "Database"
      [] node = "cache" -> "Cache"
      [] node = "storage" -> "Storage"
      [] node = "api_gatway" -> "Api Gatway"
      [] node = "unknown_node" -> "Unknown Node"

\* node_x, node_y, the two Scatter traces and the Figure that is returned.
NodeTraceStep ==
    /\ pc = "edge_trace" /\ idx > Len(GEdges(G))
    /\ IF \A i \in 1..Len(GNodes(G)) : attrs.pos[i] # <<>>
       THEN /\ fig_interactive' =
                 <<[edge_trace |-> [x |-> edge_xy.edge_x, y |-> edge_xy.edge_y,
                                    mode |-> "lines"],
                    node_trace |-> [x |-> [i \in 1..Len(GNodes(G)) |-> attrs.pos[i][1][1]],
                                    y |-> [i \in 1..Len(GNodes(G)) |-> attrs.pos[i][1][2]],
                                    text |-> [i \in 1..Len(GNodes(G)) |->
                                                Title(GNodes(G)[i])],
                                    size |-> attrs.sizes, color |-> attrs.colors,
                                    mode |-> "markers+text"],
                    title |-> "Interactive Cloud Architecture Visualization"]>>
            /\ idx' = 0 /\ pc' = "makedirs"
            /\ UNCHANGED <<out, exc, failedAt, outcome>>
       ELSE Raise("KeyError", "node_trace") /\ UNCHANGED <<fig_interactive, idx>>
    /\ UNCHANGED <<envVars, tableVars, effects, ax, G, attrs, edge_xy, html_content>>

\* ------------------------------------------------------ main: the HTML page
\* os.makedirs(path, exist_ok=False): an existing directory is an error.
Makedirs_strict(d) ==
    IF d = "dir" THEN {"FileExistsError"} ELSE {"created", "PermissionError"}

\* os.makedirs(os.path.dirname(html_file), exist_ok=True): the possible
\* results when docs is in state d.
Makedirs(d) ==
    IF d = "dir" THEN {"ok"} ELSE {"created", "PermissionError"}

MakeDirsStep ==
    /\ pc = "makedirs"
    /\ \E r \in Makedirs(docs) :
         IF r \in {"ok", "created"}
         THEN /\ docs' = "dir"
              /\ effects' = IF r = "created" THEN effects \cup {"docs_created"}
                            ELSE effects
              /\ pc' = "compose"
              /\ UNCHANGED <<out, exc, failedAt, outcome>>
         ELSE Raise(r, "makedirs") /\ UNCHANGED <<docs, effects>>
    /\ UNCHANGED <<installed, pngFile, htmlFile, clock, written, run, tableVars, idx,
                   figVars>>

\* pyo.plot(fig, output_type='div', include_plotlyjs=True): the plotly.js
\* bundle and a div holding the figure.  No div_id is passed, so the div is
\* named by a freshly drawn uuid4.
DivIds == 1..NumDivIds

PyoPlot(fig, uuid) == [plotlyjs |-> TRUE, div_id |-> uuid, figure |-> fig]

\* The f-string: fixed markup around the formatted time and the plot div.
HtmlContent(now, div) ==
    <<"<!DOCTYPE html><html><head><title/><style/></head><body>",
      "<div class=header><h1/><p>Generated on ", now, "</p></div>",
      "<div class=info><h3/><ul>9 li</ul></div>",
      "<div class=chart-container>", div, "</div></body></html>">>

\* Evaluating the f-string reads the clock, which may have advanced, and
\* serialises the figure.
ComposeHtml ==
    /\ pc = "compose"
    /\ \E now \in clock..MaxClock, uuid \in DivIds :
         /\ clock' = now
         /\ html_content' = HtmlContent(now, PyoPlot(fig_interactive[1], uuid))
    /\ pc' = "write"
    /\ UNCHANGED <<installed, docs, pngFile, htmlFile, written, run, tableVars, idx,
                   out, exc, failedAt, outcome, effects, ax, G, attrs, edge_xy,
                   fig_interactive>>

\* with open(html_file, 'w') as f: f.write(html_content)
WriteResults == {"ok", "PermissionError"}

WriteHtml ==
    /\ pc = "write"
    /\ \E r \in WriteResults :
         IF r = "ok"
         THEN /\ htmlFile' = html_content
              /\ written' = Append(written, [run |-> run, html |-> html_content])
              /\ effects' = effects \cup {"html_written"}
              /\ out' = out \o <<"interactive_saved", "opening_browser">>
              /\ pc' = "browser"
              /\ UNCHANGED <<exc, failedAt, outcome>>
         ELSE Raise(r, "write") /\ UNCHANGED <<htmlFile, written, effects>>
    /\ UNCHANGED <<installed, docs, pngFile, clock, run, tableVars, idx, figVars>>

\* webbrowser.open(url): True when a browser took the URL, False when none
\* did; a browser controller may also raise.
BrowserResults == {"True", "False", "webbrowser.Error"}

OpenBrowser ==
    /\ pc = "browser"
    /\ \E r \in BrowserResults :
         IF r \in {"True", "False"}
         THEN /\ effects' = effects \cup {IF r = "True" THEN "browser_opened"
                                          ELSE "browser_failed"}
              /\ pc' = "report"
              /\ UNCHANGED <<out, exc, failedAt, outcome>>
         ELSE /\ Raise(r, "browser")
              /\ effects' = effects \cup {"browser_failed"}
    /\ UNCHANGED <<envVars, tableVars, idx, figVars>>

\* The four closing prints of the try block; main returns.
ReportSuccess ==
    /\ pc = "report"
    /\ out' = out \o <<"success", "files_created", "static_png_path",
                       "interactive_html_path">>
    /\ outcome' = "Success"
    /\ pc' = "exit"
    /\ UNCHANGED <<envVars, tableVars, idx, exc, failedAt, effects, figVars>>

\* The process has ended; the script is started again over the same files.
NextRun ==
    /\ pc = "exit" /\ run < MaxRuns
    /\ run' = run + 1
    /\ pc' = "load" /\ idx' = 0 /\ out' = <<>> /\ exc' = "none" /\ failedAt' = "none"
    /\ outcome' = "running" /\ effects' = {}
    /\ ax' = NoAxes /\ G' = NoGraph /\ attrs' = NoAttrs /\ edge_xy' = NoEdgeXY
    /\ fig_interactive' = NoFigure /\ html_content' = <<>>
    /\ UNCHANGED <<installed, docs, pngFile, htmlFile, clock, written, tableVars>>

Next ==
    \/ ModuleImports
    \/ MainStart
    \/ StaticBegin
    \/ DrawComponent
    \/ ComponentsDone
    \/ DrawConnection
    \/ StaticFinish
    \/ SaveStatic
    \/ InteractiveBegin
    \/ AddNodeStep
    \/ NodesDone
    \/ AddEdgeStep
    \/ EdgesDone
    \/ ExtractAttrs
    \/ EdgeTraceStep
    \/ NodeTraceStep
    \/ MakeDirsStep
    \/ ComposeHtml
    \/ WriteHtml
    \/ OpenBrowser
    \/ ReportSuccess
    \/ NextRun

Spec == Init /\ [][Next]_vars

\* ------------------------------------- the builders over other small tables
\* The two builders are functions of their tables.  Here one of them is run
\* on tables other than the literals: prefixes of the literal tables, and edge
\* lists in which one endpoint is replaced by an identifier no table knows.
Prefixes(tbl, lo, hi) == {Prefix(tbl, n) : n \in lo..hi}

WithUnknown(es) ==
    {es} \cup {[es EXCEPT ![k][s] = "unknown_node"] : k \in 1..Len(es), s \in 1..2}

NodeTables == Prefixes(NodesTable, 1, MaxTable + 1)

EdgeLists == UNION {WithUnknown(es) : es \in Prefixes(EdgesTable, 0, MaxTable + 1)}

ComponentTables == Prefixes(ComponentsTable, 0, MaxTable) \cup {ComponentsTable}

ConnectionTables == Prefixes(ConnectionsTable, 0, MaxTable) \cup {ConnectionsTable}

InitTables ==
    /\ InitEnv
    /\ \/ /\ components \in ComponentTables /\ connections \in ConnectionTables
          /\ nodes = NodesTable /\ edges = EdgesTable
       \/ /\ components = ComponentsTable /\ connections = ConnectionsTable
          /\ nodes \in NodeTables /\ edges \in EdgeLists
    /\ FreshProcess

SpecTables == InitTables /\ [][Next]_vars

\* ==================================================================== claims
\* What the claims read off the rendered figures.
Built == fig_interactive # NoFigure

\* The line segments of the edge trace: every three entries of x and y are
\* the two ends of a segment and a separator.
Segments(t) ==
    [k \in 1..(Len(t.x) \div 3) |->
       <<<<t.x[3*k - 2], t.y[3*k - 2]>>, <<t.x[3*k - 1], t.y[3*k - 1]>>>>]

WellSeparated(t) ==
    /\ Len(t.x) = Len(t.y) /\ Len(t.x) % 3 = 0
    /\ \A k \in 1..(Len(t.x) \div 3) : t.x[3*k] = None /\ t.y[3*k] = None

\* The markers of the node trace: label and position.
Markers(t) == [i \in 1..Len(t.text) |-> <<t.text[i], <<t.x[i], t.y[i]>>>>]

NoRepeats(s) == Cardinality(Range(s)) = Len(s)

EdgesValid == \A i \in 1..Len(edges) : edges[i][1] \in Keys(nodes) /\ edges[i][2] \in Keys(nodes)

\* C1: once create_interactive_visualization has returned, the node trace
\* shows exactly the keys of nodes (10 of them), each once and at its own
\* position, and the edge trace shows exactly the pairs of edges (13 of
\* them), each once, as the segment between its two endpoints' positions.
C1_RenderedEqualsTables ==
    Built =>
      LET f == fig_interactive[1] IN
        /\ Range(Markers(f.node_trace)) =
             {<<Title(k), Lookup(nodes, k).pos>> : k \in Keys(nodes)}
        /\ NoRepeats(f.node_trace.text)
        /\ Len(f.node_trace.text) = 10
        /\ WellSeparated(f.edge_trace)
        /\ Range(Segments(f.edge_trace)) =
             {<<Lookup(nodes, e[1]).pos, Lookup(nodes, e[2]).pos>> : e \in Range(edges)}
        /\ NoRepeats(Segments(f.edge_trace))
        /\ Len(Segments(f.edge_trace)) = 13

C1_Witness == Built /\ pc = "makedirs" /\ Len(fig_interactive[1].edge_trace.x) = 39

C3_LookupsSucceed ==
    /\ EdgesValid
    /\ exc # "KeyError"
    /\ pc = "extract" => \A i \in 1..Len(GNodes(G)) : GNodes(G)[i] \in Keys(nodes)
    /\ pc = "edge_trace" =>
         /\ \A i \in 1..Len(GEdges(G)) :
              PosHas(G, attrs.pos, GEdges(G)[i][1]) /\ PosHas(G, attrs.pos, GEdges(G)[i][2])
         /\ \A i \in 1..Len(GNodes(G)) : attrs.pos[i] # <<>>

C3_Witness == Built /\ exc = "none" /\ Len(GEdges(G)) = 13 /\ Len(GNodes(G)) = 10

\* The rectangles the component loop adds are the ones with a black edge;
\* the cloud boundary has a light blue one.
ComponentRects == SelectSeq(ax.patches, LAMBDA r : r.edgecolor = "black")

Centred(r, t) == t.x2 = 2 * r.x + r.w /\ t.y2 = 2 * r.y + r.h

OneLabelledRectPerComponent ==
    /\ Len(ComponentRects) = Len(components)
    /\ \A i \in 1..Len(components) :
         /\ ComponentRects[i] = ComponentPatch(components[i])
         /\ Cardinality({j \in 1..Len(ax.texts) :
                           /\ ax.texts[j].text = components[i].label
                           /\ Centred(ComponentRects[i], ax.texts[j])}) = 1

\* C4 as stated: when create_matplotlib_visualization returns there is one
\* labelled rectangle per entry of components, and the rectangles on the
\* figure are as many as the table's entries, 10.
C4_RectanglesEqualEntries ==
    pc = "savefig" =>
      /\ OneLabelledRectPerComponent
      /\ Len(ax.patches) = Len(components)
      /\ Len(ax.patches) = 10

\* C4, amended: one labelled rectangle per entry of components (10 of
\* them), and the rectangles on the figure are those and the cloud boundary:
\* one more than the table's entries, 11.
C4_RectanglesEntriesPlusCloud ==
    pc = "savefig" =>
      /\ OneLabelledRectPerComponent
      /\ Len(ComponentRects) = 10
      /\ Len(ax.patches) = Len(components) + 1
      /\ Len(ax.patches) = 11

C4_Witness == pc = "savefig" /\ Len(ax.patches) = 11 /\ Len(ax.texts) = 11

\* C5: when create_matplotlib_visualization returns there is one arrow per
\* entry of connections (12 for the literal table), the i-th running from
\* the i-th entry's start point to its end point, whatever components holds.
C5_ArrowsAreConnections ==
    pc = "savefig" =>
      /\ Len(ax.arrows) = Len(connections)
      /\ \A i \in 1..Len(connections) :
           /\ ax.arrows[i].xytext = <<connections[i].start_x, connections[i].start_y>>
           /\ ax.arrows[i].xy = <<connections[i].end_x, connections[i].end_y>>
      /\ connections = ConnectionsTable => Len(ax.arrows) = 12

C5_Witness ==
    /\ pc = "savefig" /\ Len(ax.arrows) = 12
    /\ components # ComponentsTable /\ Len(components) = MaxTable

SuccessLines == {"success", "files_created", "static_png_path", "interactive_html_path"}

WroteThisRun == \E i \in 1..Len(written) : written[i].run = run

\* C6: when savefig raises, main prints the error line and returns, and
\* nothing after the raster export has happened in that run: no interactive
\* figure, no docs directory created, no index.html written, no browser call.
C6_SavefigFailureIsFailFast ==
    failedAt = "savefig" =>
      /\ pc = "exit" /\ outcome = "Unexpected"
      /\ out[Len(out)] = "error_creating_visualization"
      /\ Range(out) \cap SuccessLines = {}
      /\ ~Built /\ G = NoGraph /\ html_content = <<>>
      /\ effects \cap {"docs_created", "html_written", "browser_opened",
                       "browser_failed"} = {}
      /\ ~WroteThisRun

C6_Witness == failedAt = "savefig" /\ pc = "exit" /\ exc = "OSError" /\ run = 2

\* A document with its timestamp blanked, and with its plot div's name
\* blanked as well.
ModuloTimestamp(html) == [html EXCEPT ![3] = 0]

ModuloTimestampAndDivId(html) == [html EXCEPT ![3] = 0, ![7].div_id = 0]

\* C7 as stated: a run never fails because docs already exists, and any two
\* documents written by successive runs are the same but for the timestamp.
C7_SecondRunSameHtml ==
    /\ exc # "FileExistsError"
    /\ failedAt = "makedirs" => docs = "absent"
    /\ \A i, j \in 1..Len(written) :
         ModuloTimestamp(written[i].html) = ModuloTimestamp(written[j].html)

\* C7, amended: a run never fails because docs already exists, and any two
\* documents written by successive runs are the same but for the timestamp
\* and the name plotly draws for the plot div.
C7_SecondRunSameHtmlButDivId ==
    /\ exc # "FileExistsError"
    /\ failedAt = "makedirs" => docs = "absent"
    /\ \A i, j \in 1..Len(written) :
         ModuloTimestampAndDivId(written[i].html) = ModuloTimestampAndDivId(written[j].html)

C7_Witness ==
    /\ run = 2 /\ outcome = "Success" /\ Len(written) = 2
    /\ written[1].run = 1 /\ written[2].run = 2
    /\ written[1].html[3] # written[2].html[3]
    /\ "docs_created" \notin effects /\ htmlFile = written[2].html

\* C8: a browser launch that fails, by returning False or by raising, does
\* not abort the run: main prints its closing success lines, both files are
\* written and no error is reported.
C8_BrowserIsBestEffort ==
    (pc = "exit" /\ "browser_failed" \in effects) =>
      /\ outcome = "Success"
      /\ SuccessLines \subseteq Range(out)
      /\ "error_creating_visualization" \notin Range(out)
      /\ pngFile /\ htmlFile # <<>>

\* C9: every run that fails ends as MissingDependency or Unexpected, a run
\* without the libraries ends as MissingDependency with the pip hint, and no
\* exception leaves the entry point.
C9_FailuresAreClassified ==
    (pc = "exit" /\ exc # "none") =>
      /\ outcome \in {"MissingDependency", "Unexpected"}
      /\ ~installed =>
           /\ outcome = "MissingDependency"
           /\ "pip install matplotlib networkx plotly" \in Range(out)

\* Point p lies on or inside rectangle r.
Inside(p, r) == r.x <= p[1] /\ p[1] <= r.x + r.w /\ r.y <= p[2] /\ p[2] <= r.y + r.h

\* C10: every arrow drawn starts on or inside the rectangle of one component
\* and ends on or inside the rectangle of another.
C10_ArrowsAnchored ==
    pc = "savefig" =>
      \A a \in 1..Len(ax.arrows) :
        \E i, j \in 1..Len(ComponentRects) :
          /\ i # j
          /\ Inside(ax.arrows[a].xytext, ComponentRects[i])
          /\ Inside(ax.arrows[a].xy, ComponentRects[j])

C10_Witness == pc = "savefig" /\ Len(ax.arrows) = 12 /\ Len(ComponentRects) = 10

====
